---- MODULE Spec2Model ----
(***************************************************************************)
(* Beat the House: the play / grand-solve / season engine of src/main.py.  *)
(*                                                                         *)
(* The store is one SQLite database in rollback-journal mode.  Every       *)
(* handler opens its own connection.  A SELECT outside a transaction is    *)
(* one autocommit read of the committed state.  The first INSERT/UPDATE/   *)
(* DELETE of a handler implicitly begins a write transaction and takes     *)
(* the database's single write lock; everything the handler does from      *)
(* there to conn.commit() is applied at once when it commits.  A handler   *)
(* that finds the write lock busy for the connection's timeout (5 s)       *)
(* raises sqlite3.OperationalError.                                        *)
(***************************************************************************)
EXTENDS Integers, Sequences, FiniteSets, TLC

VARIABLES
    current_season,   \* system_state['current_season']
    vault,            \* vault.balance of the single row id = 1
    players,          \* players table: user_id -> row
    player_wins,      \* player_wins table: user_id -> l1_wins
    transactions,     \* transactions table, in id order
    next_tx_id,       \* AUTOINCREMENT counter of transactions.id
    hall_of_fame,     \* hall_of_fame table: a set of rows
    now,              \* the wall clock read by time.time(), in seconds
    lock,             \* the request holding the write lock, 0 when free
    req,              \* the requests in flight: handler position and locals
    issued,           \* number of requests issued so far, the admin ones included
    prev_win          \* history: each user's latest winning play, and whether
                      \* trigger_season_3 has wiped the tables since

vars == << current_season, vault, players, player_wins, transactions,
           next_tx_id, hall_of_fame, now, lock, req, issued, prev_win >>

----------------------------------------------------------------------------
(* Bounds of the model *)

NSlots == 2
MaxRequests == 3
MaxVault == 1100
MaxRecent == 5

Slots == 1..NSlots
Users == {"u1", "u2"}

----------------------------------------------------------------------------
(* Program constants *)

SEED_VAULT_AMOUNT == 1000
COST_PER_PLAY == 10
LAYER2_THRESHOLD == 3
WIN_COOLDOWN == 120
PLAY_COOLDOWN == 5
BUSY_TIMEOUT == 5
BAIT_AMOUNT == 5000

\* GRAND_SOLVE_ANSWER and DEEP_GRID_SOLVE_ANSWER, as their runs of
\* non-blank characters (" " stands for a run of blanks).
GRAND_SOLVE_ANSWER ==
    << "timestamp", " ", "%", " ", "10", " ", "==", " ", "7", " ", "AND",
       " ", "volume", " ", ">=", " ", "3" >>
DEEP_GRID_SOLVE_ANSWER ==
    << "timestamp", " ", "%", " ", "10", " ", "==", " ", "0", " ", "AND",
       " ", "volume", " ", ">=", " ", "5" >>

\* The clock: the instant the database is created and the later instants
\* at which a request may read the clock.
StartTime == 1007
ClockOffsets == {0, 3, 10, 120}
Instants == { StartTime + o : o \in ClockOffsets }

\* The formulas a client submits (req.formula indexes this sequence).
FormulaInputs ==
    << << " ", "Timestamp", " ", "%", " ", "10", " ", "==", " ", "7", " ",
          "and", " ", "VOLUME", " ", ">=", " ", "3", " " >>,
       DEEP_GRID_SOLVE_ANSWER >>

----------------------------------------------------------------------------
(* Pure helpers *)

Min(a, b) == IF a <= b THEN a ELSE b
Max(a, b) == IF a >= b THEN a ELSE b

\* str.lower() on the words that occur in the inputs.
Lower(w) ==
    CASE w = "AND" -> "and"
      [] w = "Timestamp" -> "timestamp"
      [] w = "VOLUME" -> "volume"
      [] OTHER -> w

IsWord(w) == w # " "

\* " ".join(formula.split()).lower(): drop the runs of blanks, put one blank
\* between the words, fold the case.
Canonical(f) ==
    LET words == SelectSeq(f, IsWord)
        n == Len(words)
    IN  [ i \in 1..(IF n = 0 THEN 0 ELSE 2 * n - 1) |->
            IF i % 2 = 1 THEN Lower(words[(i + 1) \div 2]) ELSE " " ]

\* target of grand_solve for the season it read.
SolveTarget(season) ==
    Canonical(IF season = 3 THEN DEEP_GRID_SOLVE_ANSWER ELSE GRAND_SOLVE_ANSWER)

\* Variant of VaultShare: the whole fee goes to the vault.
VaultShareWholeFee == COST_PER_PLAY

\* int(COST_PER_PLAY * 0.9)
VaultShare == (COST_PER_PLAY * 9) \div 10

\* int(vault * 0.60)
GrandPrize(v) == (v * 60) \div 100

\* Variant of calculate_hybrid_payout: round() in place of int().
calculate_hybrid_payout_rounded(current_vault) ==
    IF current_vault <= 0 THEN 0
    ELSE Min(current_vault, Max(20, (current_vault * 3 + 50) \div 100))

\* calculate_hybrid_payout: int(current_vault * 0.03) truncates.
calculate_hybrid_payout(current_vault) ==
    IF current_vault <= 0 THEN 0
    ELSE Min(current_vault, Max(20, (current_vault * 3) \div 100))

update_vault(balance, amount_change) == balance + amount_change

\* Season parameters of check_win_condition.
TargetDigit(season) == IF season = 3 THEN 0 ELSE 7
VolThreshold(season) == IF season = 3 THEN 5 ELSE LAYER2_THRESHOLD

\* A table keyed by user_id with no rows.
EmptyTable == [ k \in {} |-> 0 ]

\* A players row as INSERT creates it (the REAL columns default to 0).
NewPlayer ==
    [ total_spent |-> 0, total_won |-> 0, last_win_time |-> 0, last_play_time |-> 0 ]

PlayerRow(pl, u) == IF u \in DOMAIN pl THEN pl[u] ELSE NewPlayer

\* Insert-or-update of one row of a table keyed by user_id.
Upsert(table, u, row) ==
    [ k \in DOMAIN table \cup {u} |-> IF k = u THEN row ELSE table[k] ]

\* row[0] if row else 0, for last_play_time and last_win_time.
LastPlay(pl, u) == IF u \in DOMAIN pl THEN pl[u].last_play_time ELSE 0
LastWin(pl, u) == IF u \in DOMAIN pl THEN pl[u].last_win_time ELSE 0
L1Wins(pw, u) == IF u \in DOMAIN pw THEN pw[u] ELSE 0

\* Variant of WinCooldownActive: the play cooldown used for the win gate.
WinCooldownShort(t, last_win) == (t - last_win) < PLAY_COOLDOWN

\* (time.time() - last) < COOLDOWN
PlayCooldownActive(t, last_play) == (t - last_play) < PLAY_COOLDOWN
WinCooldownActive(t, last_win) == (t - last_win) < WIN_COOLDOWN

\* str(int(time.time()))[-1] == target_digit
DigitMatches(t, season) == t % 10 = TargetDigit(season)

\* Variant of Volume: the play's own row counted as well.
VolumeWithOwnRow(txs, t) ==
    Cardinality({ i \in 1..Len(txs) : txs[i].timestamp > t - 10 }) + 1

\* SELECT COUNT(*) FROM transactions WHERE timestamp > time.time() - 10
Volume(txs, t) ==
    Cardinality({ i \in 1..Len(txs) : txs[i].timestamp > t - 10 })

\* Variant of L1Upsert: ON CONFLICT DO NOTHING.
L1UpsertKeep(pw, u) == Upsert(pw, u, IF u \in DOMAIN pw THEN pw[u] ELSE 1)

\* INSERT INTO player_wins ... ON CONFLICT DO UPDATE SET l1_wins = l1_wins + 1
L1Upsert(pw, u) == Upsert(pw, u, IF u \in DOMAIN pw THEN pw[u] + 1 ELSE 1)

\* Variant of check_win_condition: the tier test is l1_wins <= 3.
check_win_condition_tier_inclusive(pl, pw, txs, u, t, season) ==
    IF WinCooldownActive(t, LastWin(pl, u))
    THEN [ win |-> FALSE, message |-> "ERR_HEAT_CRITICAL", player_wins |-> pw ]
    ELSE IF ~DigitMatches(t, season)
    THEN [ win |-> FALSE, message |-> "SIGNAL_MISMATCH", player_wins |-> pw ]
    ELSE IF L1Wins(pw, u) <= 3
    THEN [ win |-> TRUE, message |-> "PROTOCOL_BYPASS_SUCCESS",
           player_wins |-> L1Upsert(pw, u) ]
    ELSE IF Volume(txs, t) >= VolThreshold(season)
    THEN [ win |-> TRUE, message |-> "ENTROPY_SURGE_CONFIRMED", player_wins |-> pw ]
    ELSE [ win |-> FALSE, message |-> "ERR_ENTROPY_INSUFFICIENT", player_wins |-> pw ]

\* check_win_condition, run inside the play transaction at clock reading t:
\* the verdict, the message and the player_wins table it leaves.
check_win_condition(pl, pw, txs, u, t, season) ==
    IF WinCooldownActive(t, LastWin(pl, u))
    THEN [ win |-> FALSE, message |-> "ERR_HEAT_CRITICAL", player_wins |-> pw ]
    ELSE IF ~DigitMatches(t, season)
    THEN [ win |-> FALSE, message |-> "SIGNAL_MISMATCH", player_wins |-> pw ]
    ELSE IF L1Wins(pw, u) < 3
    THEN [ win |-> TRUE, message |-> "PROTOCOL_BYPASS_SUCCESS",
           player_wins |-> L1Upsert(pw, u) ]
    ELSE IF Volume(txs, t) >= VolThreshold(season)
    THEN [ win |-> TRUE, message |-> "ENTROPY_SURGE_CONFIRMED", player_wins |-> pw ]
    ELSE [ win |-> FALSE, message |-> "ERR_ENTROPY_INSUFFICIENT", player_wins |-> pw ]

\* log_transaction: the row appended to transactions ...
LogTransactionRow(id, u, input_amt, output_amt, vault_bal, t) ==
    [ id |-> id, user_id |-> u, input_amt |-> input_amt,
      output_amt |-> output_amt, vault_balance |-> vault_bal, timestamp |-> t ]

\* Variant of LogTransactionPlayers: a new row starts from zero totals.
LogTransactionPlayersFromZero(pl, u, input_amt, output_amt) ==
    IF u \in DOMAIN pl
    THEN [ pl EXCEPT ![u].total_spent = @ + input_amt,
                     ![u].total_won = @ + output_amt ]
    ELSE Upsert(pl, u, NewPlayer)

\* ... and the upsert of the player's running totals.
LogTransactionPlayers(pl, u, input_amt, output_amt) ==
    IF u \in DOMAIN pl
    THEN [ pl EXCEPT ![u].total_spent = @ + input_amt,
                     ![u].total_won = @ + output_amt ]
    ELSE Upsert(pl, u, [ NewPlayer EXCEPT !.total_spent = input_amt,
                                          !.total_won = output_amt ])

\* Variant of HallInsertAllowed: a table without the PRIMARY KEY.
HallInsertUnchecked(hof, season_id) == TRUE

\* The PRIMARY KEY of hall_of_fame: an INSERT of a season_id that is already
\* there raises sqlite3.IntegrityError.
HallInsertAllowed(hof, season_id) ==
    \A row \in hof : row.season_id # season_id

HallWinner(hof, season_id) == { row \in hof : row.season_id = season_id }

----------------------------------------------------------------------------
(* Requests *)

IdleReq ==
    [ pc |-> "idle", kind |-> "none", user_id |-> "-", formula |-> 0,
      vault |-> 0, season |-> 0, last_play |-> 0, wait |-> 0,
      outcome |-> "", payout |-> 0, message |-> "" ]

\* The response of a finished handler; its other locals are gone.
Done(r, outcome, payout, vault_balance, message) ==
    [ r EXCEPT !.pc = "done", !.outcome = outcome, !.payout = payout,
               !.vault = vault_balance, !.message = message,
               !.formula = 0, !.last_play = 0, !.wait = 0 ]

\* A new request takes the first slot that holds no request in flight.
Free(s) ==
    /\ req[s].pc \in {"idle", "done"}
    /\ \A k \in Slots : k < s => req[k].pc \notin {"idle", "done"}

Init ==
    /\ current_season = 1
    /\ vault = SEED_VAULT_AMOUNT
    /\ players = EmptyTable
    /\ player_wins = EmptyTable
    /\ transactions = << >>
    /\ next_tx_id = 1
    /\ hall_of_fame = {}
    /\ now = StartTime
    /\ lock = 0
    /\ req = [ s \in Slots |-> IdleReq ]
    /\ issued = 0
    /\ prev_win = [ u \in Users |-> [ time |-> 0, wiped |-> FALSE ] ]

db == << current_season, vault, players, player_wins, transactions,
         next_tx_id, hall_of_fame >>

\* time.time() moves on.
Tick ==
    /\ \E t \in Instants : t > now /\ now' = t
    /\ UNCHANGED << db, lock, req, issued, prev_win >>

\* A client posts /play.
IssuePlay(s) ==
    /\ Free(s)
    /\ issued < MaxRequests
    /\ \E u \in Users :
         req' = [ req EXCEPT ![s] =
                    [ IdleReq EXCEPT !.pc = "play_vault", !.kind = "play",
                                     !.user_id = u ] ]
    /\ issued' = issued + 1
    /\ UNCHANGED << db, now, lock, prev_win >>

\* A client posts /submit.
IssueSolve(s) ==
    /\ Free(s)
    /\ issued < MaxRequests
    /\ \E u \in Users, f \in 1..Len(FormulaInputs) :
         req' = [ req EXCEPT ![s] =
                    [ IdleReq EXCEPT !.pc = "solve_season", !.kind = "solve",
                                     !.user_id = u, !.formula = f ] ]
    /\ issued' = issued + 1
    /\ UNCHANGED << db, now, lock, prev_win >>

----------------------------------------------------------------------------
(* play_game *)

\* vault = get_vault_balance(conn); if vault <= 0: SEASON_ENDED
PlayReadVault(s) ==
    /\ req[s].pc = "play_vault"
    /\ req' = [ req EXCEPT ![s] =
                  IF vault <= 0
                  THEN Done(@, "SEASON_ENDED", 0, 0, "VAULT DRAINED. SEASON OVER.")
                  ELSE [ @ EXCEPT !.pc = "play_last", !.vault = vault ] ]
    /\ UNCHANGED << db, now, lock, issued, prev_win >>

\* row = SELECT last_play_time ...; last_play = row[0] if row else 0
PlayReadLastPlay(s) ==
    /\ req[s].pc = "play_last"
    /\ req' = [ req EXCEPT ![s] =
                  [ @ EXCEPT !.pc = "play_cooldown",
                             !.last_play = LastPlay(players, req[s].user_id) ] ]
    /\ UNCHANGED << db, now, lock, issued, prev_win >>

\* if (time.time() - last_play) < PLAY_COOLDOWN: RATE_LIMITED
PlayCheckCooldown(s) ==
    /\ req[s].pc = "play_cooldown"
    /\ req' = [ req EXCEPT ![s] =
                  IF PlayCooldownActive(now, @.last_play)
                  THEN Done(@, "ERROR", 0, @.vault, "RATE_LIMITED: WAIT 5s")
                  ELSE [ @ EXCEPT !.pc = "play_begin" ] ]
    /\ UNCHANGED << db, now, lock, issued, prev_win >>

\* The INSERT INTO players begins the write transaction: it takes the lock.
PlayBegin(s) ==
    /\ req[s].pc = "play_begin"
    /\ lock = 0
    /\ lock' = s
    /\ req' = [ req EXCEPT ![s] = [ @ EXCEPT !.pc = "play_tx", !.wait = 0 ] ]
    /\ UNCHANGED << db, now, issued, prev_win >>

\* The INSERT finds the write lock held: the connection starts to wait.
PlayBlocked(s) ==
    /\ req[s].pc = "play_begin"
    /\ lock # 0
    /\ req[s].wait = 0
    /\ req' = [ req EXCEPT ![s] = [ @ EXCEPT !.wait = now ] ]
    /\ UNCHANGED << db, now, lock, issued, prev_win >>

\* The lock is still busy when the connection's timeout has run out:
\* OperationalError leaves the handler, nothing was written.
PlayBusy(s) ==
    /\ req[s].pc = "play_begin"
    /\ lock # 0
    /\ req[s].wait # 0
    /\ now - req[s].wait >= BUSY_TIMEOUT
    /\ req' = [ req EXCEPT ![s] =
                  Done(@, "FAULT", 0, 0, "OperationalError: database is locked") ]
    /\ UNCHANGED << db, now, lock, issued, prev_win >>

\* Variants of WinPayout: no clamp to the balance; the payout computed from
\* the balance the request read before its transaction.
WinPayoutUnclamped(request_vault, balance) ==
    Max(20, (balance * 3) \div 100)

WinPayoutStale(request_vault, balance) ==
    LET current_vault == update_vault(request_vault, VaultShare)
    IN  Min(calculate_hybrid_payout(current_vault), current_vault)

\* current_vault = get_vault_balance(conn) inside the transaction (not the
\* balance the request read before it); payout = min(raw_payout, current_vault)
WinPayout(request_vault, balance) ==
    LET current_vault == balance
    IN  Min(calculate_hybrid_payout(current_vault), current_vault)

\* Variant of play_tx: the ledger row records the balance worked out from
\* the vault the request read before its transaction.
play_tx_logs_request_vault(u, request_vault, t) ==
    LET pl1 == Upsert(players, u,
                      [ PlayerRow(players, u) EXCEPT !.last_play_time = t ])
        v1 == update_vault(vault, VaultShare)
        chk == check_win_condition(pl1, player_wins, transactions, u, t,
                                   current_season)
        payout == IF chk.win THEN WinPayout(request_vault, v1) ELSE 0
        v2 == IF chk.win THEN update_vault(v1, -payout) ELSE v1
        pl2 == IF chk.win THEN [ pl1 EXCEPT ![u].last_win_time = t ] ELSE pl1
    IN  [ win |-> chk.win, message |-> chk.message, payout |-> payout,
          vault |-> v2, player_wins |-> chk.player_wins,
          players |-> LogTransactionPlayers(pl2, u, COST_PER_PLAY, payout),
          row |-> LogTransactionRow(next_tx_id, u, COST_PER_PLAY, payout,
                                    request_vault + VaultShare - payout, t) ]

\* The write transaction of play_game, from the players upsert to commit,
\* for user u at clock reading t: what it leaves and what it answers.
play_tx(u, request_vault, t) ==
    LET pl1 == Upsert(players, u,
                      [ PlayerRow(players, u) EXCEPT !.last_play_time = t ])
        v1 == update_vault(vault, VaultShare)
        chk == check_win_condition(pl1, player_wins, transactions, u, t,
                                   current_season)
        payout == IF chk.win THEN WinPayout(request_vault, v1) ELSE 0
        v2 == IF chk.win THEN update_vault(v1, -payout) ELSE v1
        pl2 == IF chk.win THEN [ pl1 EXCEPT ![u].last_win_time = t ] ELSE pl1
    IN  [ win |-> chk.win, message |-> chk.message, payout |-> payout,
          vault |-> v2, player_wins |-> chk.player_wins,
          players |-> LogTransactionPlayers(pl2, u, COST_PER_PLAY, payout),
          row |-> LogTransactionRow(next_tx_id, u, COST_PER_PLAY, payout, v2, t) ]

PlayCommit(s) ==
    /\ req[s].pc = "play_tx"
    /\ lock = s
    /\ LET u == req[s].user_id
           tx == play_tx(u, req[s].vault, now)
       IN  /\ vault' = tx.vault
           /\ players' = tx.players
           /\ player_wins' = tx.player_wins
           /\ transactions' = Append(transactions, tx.row)
           /\ next_tx_id' = next_tx_id + 1
           /\ req' = [ req EXCEPT ![s] =
                         Done(@, IF tx.win THEN "WIN" ELSE "LOSS", tx.payout,
                              tx.vault, tx.message) ]
           /\ prev_win' = IF tx.win
                          THEN [ prev_win EXCEPT ![u] =
                                   [ time |-> now, wiped |-> FALSE ] ]
                          ELSE prev_win
    /\ lock' = 0
    /\ UNCHANGED << current_season, hall_of_fame, now, issued >>

----------------------------------------------------------------------------
(* grand_solve *)

Submission(r) == Canonical(FormulaInputs[r.formula])

\* season = get_current_season(), on a connection of its own, before the
\* handler's connection is opened.
SolveReadSeason(s) ==
    /\ req[s].pc = "solve_season"
    /\ req' = [ req EXCEPT ![s] =
                  [ @ EXCEPT !.pc = "solve_vault", !.season = current_season ] ]
    /\ UNCHANGED << db, now, lock, issued, prev_win >>

\* vault = get_vault_balance(conn): a SELECT, which begins no transaction.
\* Then the branch on vault <= 0 and on submission == target.
SolveReadVault(s) ==
    /\ req[s].pc = "solve_vault"
    /\ req' = [ req EXCEPT ![s] =
                  IF vault <= 0
                  THEN [ @ EXCEPT !.pc = "solve_winner", !.vault = vault ]
                  ELSE IF Submission(@) = SolveTarget(@.season)
                  THEN [ @ EXCEPT !.pc = "solve_begin", !.vault = vault ]
                  ELSE Done(@, "REJECTED", 0, 0, "INVALID KEY") ]
    /\ UNCHANGED << db, now, lock, issued, prev_win >>

\* winner = SELECT winner_id FROM hall_of_fame WHERE season_id = season
SolveReadWinner(s) ==
    /\ req[s].pc = "solve_winner"
    /\ req' = [ req EXCEPT ![s] =
                  IF HallWinner(hall_of_fame, @.season) # {}
                  THEN Done(@, "LOCKED", 0, 0, "ALREADY CLAIMED BY")
                  ELSE Done(@, "ERROR", 0, 0, "SEASON CLOSED") ]
    /\ UNCHANGED << db, now, lock, issued, prev_win >>

\* The INSERT INTO hall_of_fame issues BEGIN IMMEDIATE: it takes the lock.
SolveBegin(s) ==
    /\ req[s].pc = "solve_begin"
    /\ lock = 0
    /\ lock' = s
    /\ req' = [ req EXCEPT ![s] = [ @ EXCEPT !.pc = "solve_tx", !.wait = 0 ] ]
    /\ UNCHANGED << db, now, issued, prev_win >>

\* BEGIN IMMEDIATE finds the write lock held: the connection starts to wait.
SolveBlocked(s) ==
    /\ req[s].pc = "solve_begin"
    /\ lock # 0
    /\ req[s].wait = 0
    /\ req' = [ req EXCEPT ![s] = [ @ EXCEPT !.wait = now ] ]
    /\ UNCHANGED << db, now, lock, issued, prev_win >>

\* The lock is still busy when the connection's timeout has run out:
\* OperationalError is not an IntegrityError, so it leaves the handler.
SolveBusy(s) ==
    /\ req[s].pc = "solve_begin"
    /\ lock # 0
    /\ req[s].wait # 0
    /\ now - req[s].wait >= BUSY_TIMEOUT
    /\ req' = [ req EXCEPT ![s] =
                  Done(@, "FAULT", 0, 0, "OperationalError: database is locked") ]
    /\ UNCHANGED << db, now, lock, issued, prev_win >>

\* next_season = 2 if season == 1 else 4
NextSeason(season) == IF season = 1 THEN 2 ELSE 4

\* The hall_of_fame row of a grand solve.
WinnerRow(season, u, prize, t) ==
    [ season_id |-> season, winner_id |-> u, payout |-> prize, win_date |-> t ]

\* The INSERT was rejected by the PRIMARY KEY: the handler answers LOCKED
\* and the transaction commits nothing.
SolveLocked(s) ==
    /\ req[s].pc = "solve_tx"
    /\ lock = s
    /\ ~HallInsertAllowed(hall_of_fame, req[s].season)
    /\ req' = [ req EXCEPT ![s] =
                  Done(@, "LOCKED", 0, 0, "ALREADY CLAIMED BY ANOTHER PLAYER") ]
    /\ lock' = 0
    /\ UNCHANGED << db, now, issued, prev_win >>

\* The winning transaction: winner row, drained vault, ledger row, next
\* season; all from the season and the vault the request read earlier.
SolveCommit(s) ==
    /\ req[s].pc = "solve_tx"
    /\ lock = s
    /\ HallInsertAllowed(hall_of_fame, req[s].season)
    /\ LET u == req[s].user_id
           prize == GrandPrize(req[s].vault)
       IN  /\ hall_of_fame' = hall_of_fame \cup
                                {WinnerRow(req[s].season, u, prize, now)}
           /\ vault' = 0
           /\ transactions' = Append(transactions,
                                    LogTransactionRow(next_tx_id, u, 0, prize, 0, now))
           /\ next_tx_id' = next_tx_id + 1
           /\ players' = LogTransactionPlayers(players, u, 0, prize)
           /\ current_season' = NextSeason(req[s].season)
           /\ req' = [ req EXCEPT ![s] =
                         Done(@, "GRAND_SOLVE", prize, 0,
                              "SYSTEM COMPROMISED. ERA SHIFT INITIATED.") ]
    /\ lock' = 0
    /\ UNCHANGED << player_wins, now, issued, prev_win >>

----------------------------------------------------------------------------
(* Administrative triggers: one write transaction each *)

trigger_season_2 ==
    /\ lock = 0
    /\ issued < MaxRequests
    /\ current_season' = 2
    /\ issued' = issued + 1
    /\ UNCHANGED << vault, players, player_wins, transactions, next_tx_id,
                    hall_of_fame, now, lock, req, prev_win >>

\* Variant of trigger_season_3: the players table is left as it was.
trigger_season_3_keeps_players ==
    /\ lock = 0
    /\ issued < MaxRequests
    /\ current_season' = 3
    /\ vault' = BAIT_AMOUNT
    /\ hall_of_fame' = {}
    /\ transactions' = << >>
    /\ player_wins' = EmptyTable
    /\ issued' = issued + 1
    /\ prev_win' = [ u \in Users |-> [ prev_win[u] EXCEPT !.wiped = TRUE ] ]
    /\ UNCHANGED << players, next_tx_id, now, lock, req >>

trigger_season_3 ==
    /\ lock = 0
    /\ issued < MaxRequests
    /\ current_season' = 3
    /\ vault' = BAIT_AMOUNT
    /\ hall_of_fame' = {}
    /\ transactions' = << >>
    /\ players' = EmptyTable
    /\ player_wins' = EmptyTable
    /\ issued' = issued + 1
    /\ prev_win' = [ u \in Users |-> [ prev_win[u] EXCEPT !.wiped = TRUE ] ]
    /\ UNCHANGED << next_tx_id, now, lock, req >>

----------------------------------------------------------------------------

Next ==
    \/ Tick
    \/ trigger_season_2
    \/ trigger_season_3
    \/ \E s \in Slots :
         \/ IssuePlay(s)
         \/ IssueSolve(s)
         \/ PlayReadVault(s)
         \/ PlayReadLastPlay(s)
         \/ PlayCheckCooldown(s)
         \/ PlayBegin(s)
         \/ PlayBlocked(s)
         \/ PlayBusy(s)
         \/ PlayCommit(s)
         \/ SolveReadSeason(s)
         \/ SolveReadVault(s)
         \/ SolveReadWinner(s)
         \/ SolveBegin(s)
         \/ SolveBlocked(s)
         \/ SolveBusy(s)
         \/ SolveLocked(s)
         \/ SolveCommit(s)

Spec == Init /\ [][Next]_vars

----------------------------------------------------------------------------
(* The grand-solve race: every slot holds a correct submission for season  *)
(* 1, issued in an active season (vault > 0, no winner) and not yet        *)
(* started; only these requests run.                                       *)

InitRace ==
    /\ current_season = 1
    /\ vault = SEED_VAULT_AMOUNT
    /\ players = EmptyTable
    /\ player_wins = EmptyTable
    /\ transactions = << >>
    /\ next_tx_id = 1
    /\ hall_of_fame = {}
    /\ now = StartTime
    /\ lock = 0
    /\ req \in [ Slots -> { [ IdleReq EXCEPT !.pc = "solve_season",
                                             !.kind = "solve", !.user_id = u,
                                             !.formula = 1 ] : u \in Users } ]
    /\ issued = MaxRequests
    /\ prev_win = [ u \in Users |-> [ time |-> 0, wiped |-> FALSE ] ]

NextRace ==
    \/ Tick
    \/ \E s \in Slots :
         \/ SolveReadSeason(s)
         \/ SolveReadVault(s)
         \/ SolveReadWinner(s)
         \/ SolveBegin(s)
         \/ SolveBlocked(s)
         \/ SolveBusy(s)
         \/ SolveLocked(s)
         \/ SolveCommit(s)

SpecRace == InitRace /\ [][NextRace]_vars

----------------------------------------------------------------------------
(* One play against a vault of any balance from 1 to MaxVault.             *)

InitPayout ==
    /\ current_season = 1
    /\ vault \in 1..MaxVault
    /\ players = EmptyTable
    /\ player_wins = EmptyTable
    /\ transactions = << >>
    /\ next_tx_id = 1
    /\ hall_of_fame = {}
    /\ now = StartTime
    /\ lock = 0
    /\ req = [ s \in Slots |-> IdleReq ]
    /\ issued = MaxRequests - 1
    /\ prev_win = [ u \in Users |-> [ time |-> 0, wiped |-> FALSE ] ]

NextPayout ==
    \/ Tick
    \/ IssuePlay(1)
    \/ PlayReadVault(1)
    \/ PlayReadLastPlay(1)
    \/ PlayCheckCooldown(1)
    \/ PlayBegin(1)
    \/ PlayCommit(1)

SpecPayout == InitPayout /\ [][NextPayout]_vars

----------------------------------------------------------------------------
(* A claimed season with a refilled vault.  The state is the one reached   *)
(* from Init by: trigger_season_2; a play of u2 reads the vault (1000) and *)
(* is still in flight; a grand solve of u1 reads season 2, matches, takes  *)
(* the season-2 row, drains the vault and sets season 4;                   *)
(* trigger_season_2 again.  The play then commits into the drained vault.  *)

InitClaimed ==
    /\ current_season = 2
    /\ vault = 0
    /\ players = Upsert(EmptyTable, "u1",
                        [ NewPlayer EXCEPT !.total_won = GrandPrize(SEED_VAULT_AMOUNT) ])
    /\ player_wins = EmptyTable
    /\ transactions = << LogTransactionRow(1, "u1", 0, GrandPrize(SEED_VAULT_AMOUNT),
                                           0, StartTime) >>
    /\ next_tx_id = 2
    /\ hall_of_fame = { WinnerRow(2, "u1", GrandPrize(SEED_VAULT_AMOUNT), StartTime) }
    /\ now = StartTime
    /\ lock = 0
    /\ req = [ s \in Slots |->
                 IF s = 1
                 THEN [ IdleReq EXCEPT !.pc = "play_last", !.kind = "play",
                                       !.user_id = "u2", !.vault = SEED_VAULT_AMOUNT ]
                 ELSE IdleReq ]
    /\ issued = MaxRequests - 2
    /\ prev_win = [ u \in Users |-> [ time |-> 0, wiped |-> FALSE ] ]

SpecClaimed == InitClaimed /\ [][Next]_vars

----------------------------------------------------------------------------
(* A player at or next to the tier threshold.  u1 has won n = 2 or 3       *)
(* Layer-1 plays, WIN_COOLDOWN apart, the last one WIN_COOLDOWN before the *)
(* next clock reading whose digit matches; since then k = 0..MaxRecent     *)
(* losing plays of u2 were committed at the present clock reading.  In     *)
(* Season 3 the history starts from the refilled vault.                    *)

\* The clock reading of the state, and the next one with the season's digit.
Layer2Now(season) == IF season = 3 THEN StartTime ELSE StartTime + 3
Layer2Match(season) == IF season = 3 THEN StartTime + 3 ELSE StartTime + 10

\* The vault after n winning plays from balance v.
RECURSIVE VaultAfterWins(_, _)
VaultAfterWins(v, n) ==
    IF n = 0 THEN v
    ELSE LET before == VaultAfterWins(v, n - 1) + VaultShare
         IN  before - WinPayout(before, before)

\* The payout of the i-th of those plays.
WinPaid(v, i) ==
    LET before == VaultAfterWins(v, i - 1) + VaultShare
    IN  WinPayout(before, before)

RECURSIVE SumWinPaid(_, _)
SumWinPaid(v, n) == IF n = 0 THEN 0 ELSE SumWinPaid(v, n - 1) + WinPaid(v, n)

InitLayer2 ==
    \E season \in {1, 3}, n \in {2, 3}, k \in 0..MaxRecent :
       LET v0 == IF season = 3 THEN BAIT_AMOUNT ELSE SEED_VAULT_AMOUNT
           won_at(i) == Layer2Match(season) - WIN_COOLDOWN * (n - i + 1)
           vn == VaultAfterWins(v0, n)
           u1row == [ total_spent |-> COST_PER_PLAY * n,
                      total_won |-> SumWinPaid(v0, n),
                      last_win_time |-> won_at(n), last_play_time |-> won_at(n) ]
           u2row == [ total_spent |-> COST_PER_PLAY * k, total_won |-> 0,
                      last_win_time |-> 0, last_play_time |-> Layer2Now(season) ]
       IN  /\ current_season = season
           /\ vault = vn + VaultShare * k
           /\ players = IF k = 0 THEN Upsert(EmptyTable, "u1", u1row)
                        ELSE Upsert(Upsert(EmptyTable, "u1", u1row), "u2", u2row)
           /\ player_wins = Upsert(EmptyTable, "u1", n)
           /\ transactions =
                [ i \in 1..(n + k) |->
                    IF i <= n
                    THEN LogTransactionRow(i, "u1", COST_PER_PLAY, WinPaid(v0, i),
                                           VaultAfterWins(v0, i), won_at(i))
                    ELSE LogTransactionRow(i, "u2", COST_PER_PLAY, 0,
                                           vn + VaultShare * (i - n),
                                           Layer2Now(season)) ]
           /\ next_tx_id = n + k + 1
           /\ hall_of_fame = {}
           /\ now = Layer2Now(season)
           /\ lock = 0
           /\ req = [ s \in Slots |-> IdleReq ]
           /\ issued = MaxRequests - 2
           /\ prev_win = [ u \in Users |->
                             IF u = "u1" THEN [ time |-> won_at(n), wiped |-> FALSE ]
                             ELSE [ time |-> 0, wiped |-> FALSE ] ]

NextLayer2 ==
    \/ Tick
    \/ trigger_season_3
    \/ \E s \in Slots :
         \/ IssuePlay(s)
         \/ PlayReadVault(s)
         \/ PlayReadLastPlay(s)
         \/ PlayCheckCooldown(s)
         \/ PlayBegin(s)
         \/ PlayBlocked(s)
         \/ PlayBusy(s)
         \/ PlayCommit(s)

SpecLayer2 == InitLayer2 /\ [][NextLayer2]_vars

----------------------------------------------------------------------------
(* Steps, as seen from outside *)

\* The step commits the play transaction of slot s.
PlayCommitted(s) == req[s].pc = "play_tx" /\ req'[s].pc = "done"

\* The step commits the play transaction of slot s, and the play won.
PlayWon(s) == PlayCommitted(s) /\ req'[s].outcome = "WIN"

\* The step ends the grand solve of slot s with GRAND_SOLVE.
SolveWon(s) ==
    req[s].pc = "solve_tx" /\ req'[s].pc = "done" /\ req'[s].outcome = "GRAND_SOLVE"

Finished(s) == req[s].pc = "done"

----------------------------------------------------------------------------
(* C1: in every reachable state the vault balance is an integer >= 0. *)
C1_VaultNonNegative == vault \in Nat

\* A play that was in flight when the vault was drained won the 9 its own
\* fee had put back, and left the vault at 0.
C1_Witness ==
    /\ vault = 0
    /\ \E s \in Slots :
         Finished(s) /\ req[s].outcome = "WIN" /\ req[s].payout = VaultShare

----------------------------------------------------------------------------
(* C2: when N >= 2 correct grand-solve submissions issued together in an   *)
(* active season have all completed, exactly one has returned GRAND_SOLVE, *)
(* every other one LOCKED, and the vault balance is 0.                     *)
C2_OneGrandSolveOthersLocked ==
    (\A s \in Slots : Finished(s)) =>
       /\ vault = 0
       /\ \E w \in Slots :
            /\ req[w].outcome = "GRAND_SOLVE"
            /\ \A k \in Slots \ {w} : req[k].outcome = "LOCKED"

----------------------------------------------------------------------------
(* C3: hall_of_fame holds at most one row per season_id in every reachable *)
(* state, and a request returns GRAND_SOLVE for a season_id only in a step *)
(* that finds no row of that season_id and leaves exactly its own row: the *)
(* insert itself enforces uniqueness, under every interleaving.            *)
HallUnique ==
    \A r1, r2 \in hall_of_fame : r1.season_id = r2.season_id => r1 = r2

C3_OneWinnerPerSeason ==
    /\ []HallUnique
    /\ [][\A s \in Slots :
            SolveWon(s) =>
              /\ HallWinner(hall_of_fame, req[s].season) = {}
              /\ Cardinality(HallWinner(hall_of_fame', req[s].season)) = 1
              /\ \A row \in HallWinner(hall_of_fame', req[s].season) :
                   row.winner_id = req[s].user_id]_vars

\* Two correct submissions raced: one holds the season's row, the other was
\* rejected by the PRIMARY KEY at its own insert.
C3_Witness ==
    \E s, k \in Slots :
       /\ Finished(s) /\ req[s].outcome = "GRAND_SOLVE"
       /\ Finished(k) /\ req[k].outcome = "LOCKED"
       /\ req[k].message = "ALREADY CLAIMED BY ANOTHER PLAYER"
       /\ Cardinality(HallWinner(hall_of_fame, req[s].season)) = 1

----------------------------------------------------------------------------
(* C4: a play committed for a player whose l1_wins is < 3, whose win       *)
(* cooldown has elapsed and whose clock digit matches is a WIN and raises  *)
(* the stored l1_wins by exactly 1; every Layer-1 win starts from the      *)
(* counter value stored when it is granted (no two grants from one stored  *)
(* value), and is paid exactly once, by one ledger row.                    *)
GatesPass(u) ==
    /\ ~WinCooldownActive(now, LastWin(players, u))
    /\ DigitMatches(now, current_season)

C4_Layer1Win ==
    [][\A s \in Slots :
         LET u == req[s].user_id
             before == L1Wins(player_wins, u)
         IN  /\ (PlayCommitted(s) /\ GatesPass(u) /\ before < 3) =>
                  /\ req'[s].outcome = "WIN"
                  /\ req'[s].message = "PROTOCOL_BYPASS_SUCCESS"
             /\ (PlayWon(s) /\ req'[s].message = "PROTOCOL_BYPASS_SUCCESS") =>
                  /\ before < 3
                  /\ L1Wins(player_wins', u) = before + 1
                  /\ Len(transactions') = Len(transactions) + 1
                  /\ transactions'[Len(transactions')].output_amt = req'[s].payout
                  /\ vault' = vault + VaultShare - req'[s].payout
                  /\ players'[u].total_won =
                       PlayerRow(players, u).total_won + req'[s].payout
             /\ (PlayCommitted(s) /\ req'[s].outcome # "WIN") =>
                  player_wins' = player_wins]_vars

\* Two plays of one player were in flight together (both passed the play
\* cooldown and committed at one clock reading): one was granted the
\* Layer-1 win, the other met the win cooldown, and the counter stands at 1.
C4_Witness ==
    \E s, k \in Slots :
       /\ s # k /\ Finished(s) /\ Finished(k)
       /\ req[s].user_id = req[k].user_id
       /\ req[s].outcome = "WIN" /\ req[s].message = "PROTOCOL_BYPASS_SUCCESS"
       /\ req[k].outcome = "LOSS" /\ req[k].message = "ERR_HEAT_CRITICAL"
       /\ L1Wins(player_wins, req[s].user_id) = 1
       /\ Len(transactions) = 2
       /\ transactions[1].timestamp = transactions[2].timestamp

----------------------------------------------------------------------------
(* C5: the payout of every winning play is computed from the balance the   *)
(* vault holds when the payout is debited (the committed balance plus the  *)
(* play's own fee share), is at most that balance, and is debited from it: *)
(* no other request writes between the read and the debit.                 *)
C5_PayoutWithinVault ==
    [][\A s \in Slots :
         PlayWon(s) =>
           LET at_debit == vault + VaultShare
           IN  /\ req'[s].payout <= at_debit
               /\ req'[s].payout = Min(at_debit, Max(20, (at_debit * 3) \div 100))
               /\ vault' = at_debit - req'[s].payout]_vars

\* Two plays in flight together both won; the second was paid from the
\* balance the first had left (988 -> 29), not from the 1009 both had read.
C5_Witness ==
    \E s, k \in Slots :
       /\ Finished(s) /\ req[s].outcome = "WIN" /\ req[s].payout = 30
       /\ Finished(k) /\ req[k].outcome = "WIN" /\ req[k].payout = 29
       /\ vault = 959

----------------------------------------------------------------------------
(* C6: current_season never decreases, under any sequence or interleaving  *)
(* of grand solves and administrative triggers.                            *)
C6_SeasonNeverDecreases == [][current_season' >= current_season]_vars

----------------------------------------------------------------------------
(* C7: trigger_season_3 leaves every hall_of_fame row that existed before  *)
(* it present and unchanged.                                               *)
C7_HallPreserved ==
    [][trigger_season_3 => hall_of_fame \subseteq hall_of_fame']_vars

----------------------------------------------------------------------------
(* C8: after trigger_season_3, current_season is 3, the vault holds 5000,  *)
(* transactions, players and player_wins are empty, the win condition of   *)
(* the new season has target digit 0 and volume threshold 5, and a play    *)
(* committed in season 3 wins only at a clock reading that ends in 0.      *)
C8_DeepGridReset ==
    /\ [][trigger_season_3 =>
            /\ current_season' = 3
            /\ vault' = 5000
            /\ transactions' = << >>
            /\ DOMAIN players' = {}
            /\ DOMAIN player_wins' = {}
            /\ TargetDigit(current_season') = 0
            /\ VolThreshold(current_season') = 5]_vars
    /\ [][\A s \in Slots :
            (PlayWon(s) /\ current_season = 3) => now % 10 = 0]_vars

\* After the trigger a play won at a clock reading ending in 0, from the
\* refilled vault: 5009 pays 150.
C8_Witness ==
    /\ current_season = 3
    /\ now % 10 = 0
    /\ vault = 4859
    /\ \E s \in Slots :
         Finished(s) /\ req[s].outcome = "WIN" /\ req[s].payout = 150

----------------------------------------------------------------------------
(* C9, as claimed: the payout of a winning play from the post-fee balance  *)
(* v is min(v, max(20, round(v * 0.03))), rounding to nearest.             *)
C9_PayoutRounds ==
    [][\A s \in Slots :
         PlayWon(s) =>
           LET v == vault + VaultShare
           IN  req'[s].payout = Min(v, Max(20, (v * 3 + 50) \div 100))]_vars

(* C9, amended: the payout of a winning play from the post-fee balance v   *)
(* is min(v, max(20, v * 3 \div 100)), the 3 % truncated to an integer;    *)
(* v = 1009 pays 30 and leaves the vault at 979.                           *)
C9_PayoutTruncates ==
    [][\A s \in Slots :
         PlayWon(s) =>
           LET v == vault + VaultShare
           IN  /\ req'[s].payout = Min(v, Max(20, (v * 3) \div 100))
               /\ v = 1009 => (req'[s].payout = 30 /\ vault' = 979)]_vars

\* The play against the seed vault won: 1009 paid 30 and left 979.
C9_Witness ==
    /\ vault = 979
    /\ Len(transactions) = 1
    /\ transactions[1].output_amt = 30 /\ transactions[1].vault_balance = 979
    /\ Finished(1) /\ req[1].outcome = "WIN" /\ req[1].payout = 30

----------------------------------------------------------------------------
(* C10, as claimed: no player has two winning plays less than WIN_COOLDOWN *)
(* apart in any reachable history.                                         *)
C10_WinsAlwaysApart ==
    [][\A s \in Slots :
         (PlayWon(s) /\ prev_win[req[s].user_id].time > 0) =>
           now - prev_win[req[s].user_id].time >= WIN_COOLDOWN]_vars

(* C10, amended: a play committed less than WIN_COOLDOWN after the         *)
(* player's stored last_win_time is a LOSS with ERR_HEAT_CRITICAL whatever *)
(* the clock digit, so two winning plays of a player are at least          *)
(* WIN_COOLDOWN apart unless trigger_season_3 wiped the players table      *)
(* between them; once WIN_COOLDOWN has elapsed the gate does not block.    *)
C10_WinCooldown ==
    [][\A s \in Slots :
         LET u == req[s].user_id
         IN  /\ (PlayCommitted(s) /\ now - LastWin(players, u) < WIN_COOLDOWN) =>
                  /\ req'[s].outcome = "LOSS"
                  /\ req'[s].message = "ERR_HEAT_CRITICAL"
             /\ (PlayCommitted(s) /\ now - LastWin(players, u) >= WIN_COOLDOWN) =>
                  req'[s].message # "ERR_HEAT_CRITICAL"
             /\ (PlayWon(s) /\ prev_win[u].time > 0 /\ ~prev_win[u].wiped) =>
                  now - prev_win[u].time >= WIN_COOLDOWN]_vars

\* One player: a win, then a play 10 s later at a matching digit that met
\* the cooldown, then a win once 120 s had passed.
C10_Witness ==
    /\ Len(transactions) = 3
    /\ \A i \in 1..3 : transactions[i].user_id = transactions[1].user_id
    /\ transactions[1].output_amt > 0
    /\ transactions[2].output_amt = 0
    /\ transactions[2].timestamp - transactions[1].timestamp < WIN_COOLDOWN
    /\ DigitMatches(transactions[2].timestamp, current_season)
    /\ transactions[3].output_amt > 0
    /\ transactions[3].timestamp - transactions[1].timestamp = WIN_COOLDOWN
    /\ \E s \in Slots : Finished(s) /\ req[s].message = "ERR_HEAT_CRITICAL"

----------------------------------------------------------------------------
(* C11: a grand solve returns GRAND_SOLVE only in a step that starts in    *)
(* Season 1 and ends in Season 2, or starts in Season 3 and ends in        *)
(* Season 4: none succeeds while the stored season is 2 or 4, and none     *)
(* takes the season from 2 to 4 past Season 3.                             *)
C11_SeasonTransitionTable ==
    [][\A s \in Slots :
         SolveWon(s) =>
           \/ current_season = 1 /\ current_season' = 2
           \/ current_season = 3 /\ current_season' = 4]_vars

----------------------------------------------------------------------------
(* C12: while the vault balance is 0, every play request that ends returns *)
(* SEASON_ENDED with payout 0 and changes nothing in the database, and the *)
(* balance stays 0 until an administrative trigger refills it; plays that  *)
(* were in flight when the vault was drained included.                     *)
PlayEnds(s) ==
    req[s].kind = "play" /\ req[s].pc \notin {"idle", "done"} /\ req'[s].pc = "done"

C12_DrainedVaultStays ==
    [][vault = 0 =>
         /\ \A s \in Slots :
              PlayEnds(s) =>
                /\ req'[s].outcome = "SEASON_ENDED"
                /\ req'[s].payout = 0
                /\ UNCHANGED db
         /\ (vault' = 0 \/ trigger_season_3)]_vars

----------------------------------------------------------------------------
(* C13: every play that passes the vault-empty and play-cooldown checks    *)
(* credits exactly 9 of its fee of 10 to the vault whatever the outcome    *)
(* (the payout of a win is taken from the balance that already holds the   *)
(* 9) and appends exactly one transaction with input_amt 10; a losing play *)
(* leaves the vault exactly 9 higher with payout 0 (1000 -> 1009).         *)
C13_FeeShareCredited ==
    [][\A s \in Slots :
         PlayCommitted(s) =>
           LET last == transactions'[Len(transactions')]
           IN  /\ Len(transactions') = Len(transactions) + 1
               /\ SubSeq(transactions', 1, Len(transactions)) = transactions
               /\ last.input_amt = 10
               /\ last.user_id = req[s].user_id
               /\ vault' = vault + 9 - req'[s].payout
               /\ req'[s].payout <= vault + 9
               /\ req'[s].outcome \in {"WIN", "LOSS"}
               /\ req'[s].outcome = "LOSS" =>
                    (req'[s].payout = 0 /\ vault' = vault + 9)
               /\ (req'[s].outcome = "LOSS" /\ vault = 1000) => vault' = 1009]_vars

\* The play against the seed vault lost: the vault stands at 1009 and the
\* ledger holds its one row, input_amt 10 and output_amt 0.
C13_Witness ==
    /\ vault = 1009
    /\ Len(transactions) = 1
    /\ transactions[1].input_amt = 10 /\ transactions[1].output_amt = 0
    /\ transactions[1].vault_balance = 1009
    /\ Finished(1) /\ req[1].outcome = "LOSS" /\ req[1].payout = 0

----------------------------------------------------------------------------
(* C14: a play that reaches its cooldown check less than PLAY_COOLDOWN     *)
(* after the user's stored last_play_time ends RATE_LIMITED and changes    *)
(* nothing, and no user has two fee-charged plays in the ledger less than  *)
(* PLAY_COOLDOWN apart, requests in flight together included.              *)
PlaysApart ==
    \A i, j \in 1..Len(transactions) :
       ( /\ i < j
         /\ transactions[i].user_id = transactions[j].user_id
         /\ transactions[i].input_amt = COST_PER_PLAY
         /\ transactions[j].input_amt = COST_PER_PLAY ) =>
          transactions[j].timestamp - transactions[i].timestamp >= PLAY_COOLDOWN

C14_PlayCooldown ==
    /\ []PlaysApart
    /\ [][\A s \in Slots :
            ( /\ req[s].pc = "play_cooldown"
              /\ req'[s].pc # "play_cooldown"
              /\ now - LastPlay(players, req[s].user_id) < PLAY_COOLDOWN ) =>
               /\ req'[s].pc = "done"
               /\ req'[s].message = "RATE_LIMITED: WAIT 5s"
               /\ UNCHANGED db]_vars

----------------------------------------------------------------------------
(* C15: a grand solve that checks its precondition while the vault is 0,   *)
(* or while hall_of_fame holds a row for the current season, is not        *)
(* decided by its formula: it is never REJECTED, with the vault at 0 a     *)
(* matching and a non-matching formula take the same path, the answer of   *)
(* that path is LOCKED or SEASON CLOSED, and the database is unchanged.    *)
C15_SolvePrecondition ==
    [][\A s \in Slots :
         LET checks == /\ req[s].pc = "solve_vault"
                       /\ req'[s].pc # "solve_vault"
                       /\ req[s].season = current_season
         IN  /\ (checks /\ vault = 0) =>
                  (req'[s].pc = "solve_winner" /\ UNCHANGED db)
             /\ (checks /\ HallWinner(hall_of_fame, current_season) # {}) =>
                  (req'[s].pc \in {"solve_winner", "solve_begin"} /\ UNCHANGED db)
             /\ (req[s].pc = "solve_winner" /\ req'[s].pc = "done") =>
                  /\ \/ req'[s].outcome = "LOCKED"
                     \/ req'[s].outcome = "ERROR" /\ req'[s].message = "SEASON CLOSED"
                  /\ UNCHANGED db]_vars

----------------------------------------------------------------------------
(* C16: a request returns GRAND_SOLVE only in a step in which its formula  *)
(* equals the secret of the season stored at that moment, the winner row   *)
(* it inserts is keyed by that season, and the season it advances from is  *)
(* that season; whatever commits between its season read and its insert.   *)
C16_SolveAtomicInSeason ==
    [][\A s \in Slots :
         SolveWon(s) =>
           /\ req[s].season = current_season
           /\ Submission(req[s]) = SolveTarget(current_season)
           /\ \E row \in hall_of_fame' \ hall_of_fame :
                row.season_id = current_season /\ row.winner_id = req[s].user_id
           /\ current_season' = NextSeason(current_season)]_vars

----------------------------------------------------------------------------
(* C18: no play or grand-solve request ends in an unhandled fault: a       *)
(* request that meets a uniqueness rejection or a busy write lock ends     *)
(* with a structured outcome and writes nothing.                           *)
C18_NoUnhandledFault ==
    \A s \in Slots : Finished(s) => req[s].outcome # "FAULT"

----------------------------------------------------------------------------
(* C17: a play committed for a player whose l1_wins is >= 3, whose win     *)
(* cooldown has elapsed and whose clock digit matches is a WIN if and only *)
(* if the ledger rows of all players timestamped within the trailing 10    *)
(* seconds, the play's own row not among them, number at least the         *)
(* season's threshold (5 in Season 3, 3 otherwise); either way l1_wins is  *)
(* left as it was.                                                         *)
C17_Layer2Volume ==
    [][\A s \in Slots :
         LET u == req[s].user_id
             recent == { i \in 1..Len(transactions) :
                           transactions[i].timestamp > now - 10 }
             threshold == IF current_season = 3 THEN 5 ELSE 3
         IN  (PlayCommitted(s) /\ L1Wins(player_wins, u) >= 3 /\ GatesPass(u)) =>
               /\ req'[s].outcome = "WIN" <=> Cardinality(recent) >= threshold
               /\ req'[s].outcome = "WIN" =>
                    req'[s].message = "ENTROPY_SURGE_CONFIRMED"
               /\ req'[s].outcome # "WIN" =>
                    /\ req'[s].message = "ERR_ENTROPY_INSUFFICIENT"
                    /\ req'[s].payout = 0
               /\ player_wins' = player_wins]_vars

\* Season 3: a Layer-2 play won with exactly five rows of other plays in
\* the window (its own row is the sixth), and the counter still stands at 3.
C17_Witness ==
    /\ current_season = 3
    /\ \E s \in Slots :
         /\ Finished(s) /\ req[s].outcome = "WIN"
         /\ req[s].message = "ENTROPY_SURGE_CONFIRMED"
         /\ L1Wins(player_wins, req[s].user_id) = 3
         /\ transactions[Len(transactions)].user_id = req[s].user_id
         /\ transactions[Len(transactions)].output_amt = req[s].payout
    /\ Cardinality({ i \in 1..Len(transactions) :
                       transactions[i].timestamp > now - 10 }) = 6

----------------------------------------------------------------------------
(* C19: a player's l1_wins is at most 3 in every reachable state; it never *)
(* decreases except in the step of trigger_season_3, which removes it; it  *)
(* changes otherwise only by +1, in the step of that player's Layer-1 win; *)
(* and a play that ends without a win (lost, rate-limited, season ended)   *)
(* leaves every l1_wins and the player's last_win_time as they were.       *)
TierBounded == \A u \in DOMAIN player_wins : player_wins[u] \in 1..3

C19_TierCounter ==
    /\ []TierBounded
    /\ [][\A u \in Users :
            LET before == L1Wins(player_wins, u)
                after == L1Wins(player_wins', u)
            IN  /\ after < before => trigger_season_3
                /\ after > before =>
                     /\ after = before + 1
                     /\ \E s \in Slots :
                          /\ PlayWon(s) /\ req[s].user_id = u
                          /\ req'[s].message = "PROTOCOL_BYPASS_SUCCESS"]_vars
    /\ [][\A s \in Slots :
            (PlayEnds(s) /\ req'[s].outcome # "WIN") =>
               /\ player_wins' = player_wins
               /\ LastWin(players', req[s].user_id) =
                    LastWin(players, req[s].user_id)]_vars

\* The third Layer-1 win of u1 took the counter from 2 to 3; the ledger
\* shows the three wins.
C19_Witness ==
    /\ L1Wins(player_wins, "u1") = 3
    /\ \E s \in Slots :
         /\ Finished(s) /\ req[s].user_id = "u1" /\ req[s].outcome = "WIN"
         /\ req[s].message = "PROTOCOL_BYPASS_SUCCESS"
    /\ Cardinality({ i \in 1..Len(transactions) :
                       /\ transactions[i].user_id = "u1"
                       /\ transactions[i].output_amt > 0 }) = 3

----------------------------------------------------------------------------
(* C20: in every reachable state, for every user, the players row's        *)
(* total_spent is the sum of input_amt and its total_won the sum of        *)
(* output_amt over that user's ledger rows; a user without a players row   *)
(* has no ledger rows (both tables are emptied together).                  *)
RECURSIVE LedgerSpent(_, _, _)
LedgerSpent(txs, u, n) ==
    IF n = 0 THEN 0
    ELSE LedgerSpent(txs, u, n - 1)
           + (IF txs[n].user_id = u THEN txs[n].input_amt ELSE 0)

RECURSIVE LedgerWon(_, _, _)
LedgerWon(txs, u, n) ==
    IF n = 0 THEN 0
    ELSE LedgerWon(txs, u, n - 1)
           + (IF txs[n].user_id = u THEN txs[n].output_amt ELSE 0)

C20_TotalsMatchLedger ==
    \A u \in Users :
       /\ PlayerRow(players, u).total_spent =
            LedgerSpent(transactions, u, Len(transactions))
       /\ PlayerRow(players, u).total_won =
            LedgerWon(transactions, u, Len(transactions))
       /\ u \notin DOMAIN players =>
            \A i \in 1..Len(transactions) : transactions[i].user_id # u

\* One user paid for two plays, won one of them and took a grand solve:
\* three ledger rows, totals 20 spent and more than the grand prize won.
C20_Witness ==
    \E u \in Users :
       /\ u \in DOMAIN players
       /\ players[u].total_spent = 2 * COST_PER_PLAY
       /\ Cardinality({ i \in 1..Len(transactions) :
                          transactions[i].user_id = u }) = 3
       /\ \E i, j \in 1..Len(transactions) :
            /\ i # j
            /\ transactions[i].user_id = u /\ transactions[j].user_id = u
            /\ transactions[i].input_amt = 0 /\ transactions[i].output_amt > 0
            /\ transactions[j].input_amt = COST_PER_PLAY
            /\ transactions[j].output_amt > 0
            /\ players[u].total_won =
                 transactions[i].output_amt + transactions[j].output_amt

----------------------------------------------------------------------------
(* C21: in every reachable state with a non-empty ledger, the              *)
(* vault_balance of the row with the highest id is the vault balance, the  *)
(* ids rise along the ledger, and every row after the first records the    *)
(* previous row's balance plus 9 minus its own output_amt if it is a play  *)
(* (input_amt 10), and 0 if it is a grand solve (input_amt 0).             *)
C21_LedgerTracksVault ==
    /\ Len(transactions) > 0 =>
         transactions[Len(transactions)].vault_balance = vault
    /\ \A i \in 2..Len(transactions) :
         /\ transactions[i].id > transactions[i - 1].id
         /\ transactions[i].vault_balance =
              IF transactions[i].input_amt = COST_PER_PLAY
              THEN transactions[i - 1].vault_balance + 9
                     - transactions[i].output_amt
              ELSE 0

\* A play, a grand solve, and a play that was in flight across the grand
\* solve: the ledger records 1009 less the payout, then 0, then 9 less the
\* payout, and the vault holds what the last row says.
C21_Witness ==
    /\ Len(transactions) = 3
    /\ transactions[1].input_amt = COST_PER_PLAY
    /\ transactions[1].vault_balance = 1009 - transactions[1].output_amt
    /\ transactions[2].input_amt = 0 /\ transactions[2].vault_balance = 0
    /\ transactions[2].output_amt > 0
    /\ transactions[3].input_amt = COST_PER_PLAY
    /\ transactions[3].vault_balance = 9 - transactions[3].output_amt
    /\ vault = transactions[3].vault_balance

====
